---- MODULE Spec2Model ----
(***************************************************************************)
(* The adaptive throttled transfer engine of adaptive-backup: the work     *)
(* queue, the dispatcher (checkFetch / checkPut), the per-mode transfer    *)
(* (Backup.fetchItem / Restore.putDocument), the pause barrier, graceful   *)
(* abandonment and completion.                                             *)
(*                                                                         *)
(* Node runs the engine on one thread.  A step of this model is one run    *)
(* of JavaScript between two suspension points that need the event loop:   *)
(* a timer or setImmediate callback, the settling of an HTTP request or    *)
(* of file I/O, a signal.  An `await` of an already resolved promise only  *)
(* defers to the microtask queue, which is drained before the event loop   *)
(* is entered again, so it does not end a step.  The callbacks passed to   *)
(* setImmediate run in the check phase of the loop iteration in which they *)
(* were scheduled: other I/O callbacks of that iteration may run before    *)
(* them, the callbacks of timers may not.                                  *)
(***************************************************************************)
EXTENDS Integers, Sequences, FiniteSets, TLC

VARIABLES
  mode,                 \* "backup" (class Backup) or "restore" (class Restore)
  simultaneous,         \* options.simultaneous
  category,             \* options.category ("" when none)
  includePublic,        \* options.includePublic
  algorithm,            \* options.etagAlgorithm is set (Restore)
  started,              \* execute() has been called
  queue,                \* this.queue: insertion-ordered Map, as a sequence of entries
  failedPaths,          \* this.failedPaths
  pausePrms,            \* this.pausePrms: index into barriers
  barriers,             \* the pause promises that are pending or current
  defaultRetryAfterMs,  \* this.defaultRetryAfterMs, as a fraction num/den
  isAbandoned,          \* this.isAbandoned
  exited,               \* process.exit() has been called
  exitCode,             \* its argument
  timers,               \* pending setTimeout(checkFetch, 1) callbacks
  immediates,           \* pending setImmediate(checkFetch) callbacks
  transfers,            \* fetchItem / putDocument calls that are suspended
  hardExitTimers,       \* pending 10 s timers of handleInterruption
  faultsLeft,           \* faults the environment may still inject in this run
  everEnqueued,         \* history: paths that were added to the queue
  fallbacks,            \* history: times the default retry-after was used
  transferred,          \* history: paths whose transfer succeeded
  owed,                 \* history: <<P, Q>>, Q was idle when P was requeued
  requests,             \* history: the number of transfers launched, by path
  ev,                   \* history: the step that led to this state
  call,                 \* a function called on its own: its name and arguments
  returned              \* the value it returned

vars == <<mode, simultaneous, category, includePublic, algorithm, started, queue,
          failedPaths, pausePrms, barriers, defaultRetryAfterMs, isAbandoned,
          exited, exitCode, timers, immediates, transfers, hardExitTimers,
          faultsLeft, everEnqueued, fallbacks, transferred, owed, requests,
          ev, call, returned>>

(***************************************************************************)
(* Bounds of the model.                                                    *)
(***************************************************************************)
MaxSimultaneous == 2        \* options.simultaneous ranges over 1..MaxSimultaneous
MaxFaults == 2              \* faults in a run of Spec: responses other than
                            \* success, rejected awaits, termination signals
MaxFaultsDeep == 3          \* faults in a run of SpecDeep
MaxFaultsWide == 1          \* faults in a run of SpecWide
MaxFaultsSteady == 3        \* faults against a server that never asks to wait
MaxFaultsFair == 1          \* faults in a run of FairSpec
MaxFaultsThrottled == 13    \* 429 and 503 answers in a run of ThrottledSpec
MaxQueue == 4               \* entries of a queue that the dispatcher is called on
MaxEntries == 2             \* entries of the top directory of a walked tree
MaxTimers == 0              \* 1 ms timers pending when an I/O callback runs

(***************************************************************************)
(* Program constants.                                                      *)
(***************************************************************************)
MAX_FAILURES_PER_PATH == 3
InitialRetryAfterMs == 1500
OneHourMs == 60 * 60 * 1000

NoPath == ""                \* JavaScript undefined, for a path
NoMetadata == "undefined"   \* JavaScript undefined, for an entry's metadata
Undefined == "undefined"    \* JavaScript undefined, for an ETag or a type
Null == "null"              \* JavaScript null
NoCall == [op |-> "none"]   \* no function is called on its own
NotReturned == "pending"    \* the function called has not returned

(***************************************************************************)
(* The environment: the remote tree served to Backup, the local tree       *)
(* walked by Restore, the HTTP statuses and Retry-After headers a server   *)
(* may answer with.                                                        *)
(***************************************************************************)
Categories == {"", "foo"}

AllCategories == {"", "foo", "public"}

\* a category without any item, on the server and in the backup directory
BareCategories == {"foo", "bare"}

\* The keys of the items map of the folder description the server returns.
RemoteItems(folder) ==
  CASE folder = "/"            -> <<"foo/", "c">>
    [] folder = "/foo/"        -> <<"a">>
    [] folder = "/public/"     -> <<"foo/">>
    [] folder = "/public/foo/" -> <<"b">>
    [] OTHER                   -> <<>>

Paths ==
  {"/", "/c", "/foo/", "/foo/a", "/public/", "/public/foo/", "/public/foo/b",
   "/bare/"}

isFolder(rsPath) ==
  rsPath \in {"/", "/foo/", "/public/", "/public/foo/", "/bare/"}

\* Regular files below a local folder, with the metadata the sibling
\* 000_folder-description.json holds for each.
LocalFiles(folder) ==
  CASE folder = "/"            -> {"/c", "/foo/a", "/public/foo/b"}
    [] folder = "/foo/"        -> {"/foo/a"}
    [] folder = "/public/"     -> {"/public/foo/b"}
    [] folder = "/public/foo/" -> {"/public/foo/b"}
    [] OTHER                   -> {}

\* the entry of the file in the items of its folder's description: none,
\* one with an ETag ("described", "fresher") or one without ("untagged")
LocalMetadata(rsPath) ==
  CASE rsPath = "/foo/a" -> "described"
    [] rsPath = "/c"     -> "untagged"
    [] OTHER             -> NoMetadata

Metadata == {NoMetadata, "described", "fresher", "untagged"}

\* the ETag header of a response: absent (headers.get gives null) or a tag
ETags == {"null", "\"fresh\""}

\* Local trees to walk.  A plain entry is a regular file or a symbolic link
\* named a, a dotfile, or a description file.
NoDescription == [parsed |-> FALSE, items |-> {}]

NoDir == [description |-> NoDescription, entries |-> <<>>]

PlainEntries ==
  { [name |-> <<"a">>, kind |-> "file", dir |-> NoDir],
    [name |-> <<"a">>, kind |-> "link", dir |-> NoDir],
    [name |-> <<".", "hid">>, kind |-> "file", dir |-> NoDir],
    [name |-> <<"000_folder-description.json">>, kind |-> "file", dir |-> NoDir] }

\* the listings of up to n entries of E, no name twice
Listings(E, n) ==
  UNION {{l \in [1..k -> E] : \A i, j \in 1..k : l[i].name = l[j].name => i = j}
         : k \in 0..n}

Descriptions(metadata) ==
  { NoDescription,
    [parsed |-> TRUE, items |-> {}],
    [parsed |-> TRUE, items |-> {[name |-> <<"a">>, metadata |-> metadata]}] }

SubDirs ==
  [description : Descriptions("fresher"), entries : Listings(PlainEntries, 1)]

Entries ==
  PlainEntries \cup
  [name : {<<"sub">>, <<".", "git">>}, kind : {"directory"}, dir : SubDirs]

Trees ==
  [description : Descriptions("described"), entries : Listings(Entries, MaxEntries)]

\* metadata?.['Content-Type']: no metadata or no such key, empty, a type
MetadataTypes ==
  {Undefined, "", "text/comma-separated-values; charset=UTF-8", "image/png"}

\* (await fileTypeFromFile(filePath))?.mime: nothing recognised, or a type
SniffedTypes == {Undefined, "image/gif", "application/zip", "video/mp4"}

\* mime.getType(filePath): null for an unknown extension, or a type
ExtensionTypes == {Null, "text/csv", "image/gif", "application/json"}

Statuses == {200, 201, 401, 403, 404, 410, 412, 429, 500, 502, 503, 504}

\* A Retry-After header: absent, an integer number of seconds, or an
\* HTTP-date lying inMs milliseconds after Date.now().
RetryAfterHeaders ==
  { [kind |-> "absent", n |-> 0],
    [kind |-> "seconds", n |-> 7],
    [kind |-> "seconds", n |-> 0],
    [kind |-> "seconds", n |-> 3600],
    [kind |-> "seconds", n |-> 3601],
    [kind |-> "date", n |-> 10000],
    [kind |-> "date", n |-> 3600001],
    [kind |-> "date", n |-> -10000] }

NoHeader == [kind |-> "absent", n |-> 0]

\* no Retry-After, or one that yields no delay above zero
UnusableHeaders ==
  {header \in RetryAfterHeaders : header.kind = "absent" \/ header.n <= 0}

(***************************************************************************)
(* The insertion-ordered Map.                                              *)
(***************************************************************************)
keys(q) == [i \in 1..Len(q) |-> q[i].path]

has(q, rsPath) == \E i \in 1..Len(q) : q[i].path = rsPath

indexOf(q, rsPath) == CHOOSE i \in 1..Len(q) : q[i].path = rsPath

get(q, rsPath) == q[indexOf(q, rsPath)]

delete(q, rsPath) == SelectSeq(q, LAMBDA e : e.path # rsPath)

\* set, a new key put in front
setInFront(q, rec) ==
  IF has(q, rec.path) THEN [q EXCEPT ![indexOf(q, rec.path)] = rec]
  ELSE <<rec>> \o q

\* Map.set keeps the position of a key that is present and appends a new one.
set(q, rec) ==
  IF has(q, rec.path) THEN [q EXCEPT ![indexOf(q, rec.path)] = rec]
  ELSE Append(q, rec)

(***************************************************************************)
(* The object: the fields a method reads and writes, as one record, so     *)
(* that a method is an operator from object to object and a sequence of    *)
(* statements is a composition.  process.exit() does not return: after it  *)
(* no statement runs, which Then expresses.                                *)
(***************************************************************************)
this ==
  [ queue |-> queue, failedPaths |-> failedPaths, pausePrms |-> pausePrms,
    barriers |-> barriers, defaultRetryAfterMs |-> defaultRetryAfterMs,
    isAbandoned |-> isAbandoned, exited |-> exited, exitCode |-> exitCode,
    timers |-> timers, immediates |-> immediates, transfers |-> transfers,
    everEnqueued |-> everEnqueued, fallbacks |-> fallbacks,
    transferred |-> transferred, owed |-> owed, requests |-> requests ]

\* the fields of m become the state; m is evaluated once
Commit(m) ==
  \E x \in {m} :
    /\ queue' = x.queue
    /\ failedPaths' = x.failedPaths
    /\ pausePrms' = x.pausePrms
    /\ barriers' = x.barriers
    /\ defaultRetryAfterMs' = x.defaultRetryAfterMs
    /\ isAbandoned' = x.isAbandoned
    /\ exited' = x.exited
    /\ exitCode' = x.exitCode
    /\ timers' = x.timers
    /\ immediates' = x.immediates
    /\ transfers' = x.transfers
    /\ everEnqueued' = x.everEnqueued
    /\ fallbacks' = x.fallbacks
    /\ transferred' = x.transferred
    /\ requests' = x.requests
    /\ owed' = {pair \in x.owed :
                 has(x.queue, pair[1]) /\ has(x.queue, pair[2])}

Then(m, Statement(_)) == IF m.exited THEN m ELSE Statement(m)

(***************************************************************************)
(* Queue methods, completion and abandonment.  Backup and Restore hold the *)
(* same code for these; Restore.enqueue also stores the metadata.          *)
(***************************************************************************)
\* complete with a status of its own for a run with failed paths
completeReportingFailures(m) ==
  [m EXCEPT !.exited = TRUE,
            !.exitCode = IF m.isAbandoned THEN 2
                         ELSE IF m.failedPaths # {} THEN 1 ELSE 0]

complete(m) ==
  [m EXCEPT !.exited = TRUE, !.exitCode = IF m.isAbandoned THEN 2 ELSE 0]

\* dequeue, completing as soon as no entry waits to be launched
dequeueWhenNoneWaits(m, rsPath) ==
  LET m1 == [m EXCEPT !.queue = delete(@, rsPath)]
  IN  IF \A i \in 1..Len(m1.queue) : m1.queue[i].inFlight
      THEN complete(m1) ELSE m1

dequeue(m, rsPath) ==
  LET m1 == [m EXCEPT !.queue = delete(@, rsPath)]
  IN  IF Len(m1.queue) = 0 THEN complete(m1) ELSE m1

\* enqueue without the test of this.isAbandoned
enqueueWhenAbandoned(m, rsPath, metadata) ==
  IF ~has(m.queue, rsPath)
  THEN [m EXCEPT
          !.queue = set(@, [path |-> rsPath, inFlight |-> FALSE,
                            failures |-> 0, metadata |-> metadata]),
          !.everEnqueued = @ \cup {rsPath}]
  ELSE m

\* enqueue, the later call replacing the entry
enqueueOverwriting(m, rsPath, metadata) ==
  IF m.isAbandoned THEN m
  ELSE [m EXCEPT
          !.queue = set(@, [path |-> rsPath, inFlight |-> FALSE,
                            failures |-> 0, metadata |-> metadata]),
          !.everEnqueued = @ \cup {rsPath}]

enqueue(m, rsPath, metadata) ==
  IF m.isAbandoned THEN m
  ELSE IF ~has(m.queue, rsPath)
       THEN [m EXCEPT
               !.queue = set(@, [path |-> rsPath, inFlight |-> FALSE,
                                 failures |-> 0, metadata |-> metadata]),
               !.everEnqueued = @ \cup {rsPath}]
       ELSE m

abandonGracefully(m) ==
  [m EXCEPT !.isAbandoned = TRUE,
            !.queue = SelectSeq(@, LAMBDA e : e.inFlight)]

failedPathsAdd(m, rsPath) == [m EXCEPT !.failedPaths = @ \cup {rsPath}]

\* ++fetchRecord.failures: the record is the queue's entry for the path as
\* long as the path is queued, which it is from launch until the transfer
\* itself dequeues it (abandonGracefully spares entries in flight).
incrementFailures(m, rsPath) ==
  IF has(m.queue, rsPath)
  THEN [m EXCEPT !.queue[indexOf(m.queue, rsPath)].failures = @ + 1]
  ELSE m

(***************************************************************************)
(* Retry-After.  Durations are fractions num/den of a millisecond, since   *)
(* Restore multiplies the default by 1.5.  NaN fails (x > 0) as any        *)
(* non-positive number does.                                               *)
(***************************************************************************)
Ms(n) == [num |-> n, den |-> 1]

\* grow with Restore's factor in both classes
growByHalf(d) == [num |-> d.num * 3, den |-> d.den * 2]

grow(d) ==
  IF mode = "backup" THEN [num |-> d.num * 2, den |-> d.den]
  ELSE [num |-> d.num * 3, den |-> d.den * 2]

\* exceeds with >= for >
reaches(d, limitMs) == d.num >= limitMs * d.den

exceeds(d, limitMs) == d.num > limitMs * d.den

\* d1 < d2
less(d1, d2) == d1.num * d2.den < d2.num * d1.den

\* extractRetryAfterMs, the default doubled before it is used
extractRetryAfterMsGrowingFirst(m, header) ==
  LET secondsOk == header.kind = "seconds" /\ header.n * 1000 > 0
      dateOk    == ~secondsOk /\ header.kind = "date" /\ header.n > 0
      fallback  == ~secondsOk /\ ~dateOk
      m1 == IF fallback THEN [m EXCEPT !.defaultRetryAfterMs = grow(@),
                                       !.fallbacks = @ + 1]
            ELSE m
      retryAfterMs == IF secondsOk THEN Ms(header.n * 1000)
                      ELSE IF dateOk THEN Ms(header.n)
                      ELSE m1.defaultRetryAfterMs
      m2 == IF exceeds(retryAfterMs, OneHourMs) THEN abandonGracefully(m1) ELSE m1
  IN  [obj |-> m2, retryAfterMs |-> retryAfterMs]

extractRetryAfterMs(m, header) ==
  LET secondsOk == header.kind = "seconds" /\ header.n * 1000 > 0
      dateOk    == ~secondsOk /\ header.kind = "date" /\ header.n > 0
      fallback  == ~secondsOk /\ ~dateOk
      retryAfterMs == IF secondsOk THEN Ms(header.n * 1000)
                      ELSE IF dateOk THEN Ms(header.n)
                      ELSE m.defaultRetryAfterMs
      m1 == IF fallback THEN [m EXCEPT !.defaultRetryAfterMs = grow(@),
                                       !.fallbacks = @ + 1]
            ELSE m
      m2 == IF exceeds(retryAfterMs, OneHourMs) THEN abandonGracefully(m1) ELSE m1
  IN  [obj |-> m2, retryAfterMs |-> retryAfterMs]

\* pause, this.pausePrms keeping the promise it holds
pauseKeepingBarrier(m, header) ==
  extractRetryAfterMs(m, header).obj

\* this.pausePrms = new Promise(res => setTimeout(res, retryAfterMs)).
\* The promise that was current is kept only while it is pending: a
\* resolved promise that nothing refers to cannot be told from another.
\* A pending promise carries the delay of its timer.
pause(m, header) ==
  LET x == extractRetryAfterMs(m, header)
      barrier == [resolved |-> FALSE, waiters |-> 0,
                  retryAfterMs |-> x.retryAfterMs]
      pending == SelectSeq(m.barriers, LAMBDA b : ~b.resolved)
  IN  [x.obj EXCEPT !.barriers = Append(pending, barrier),
                    !.pausePrms = Len(pending) + 1]

(***************************************************************************)
(* The dispatcher.                                                         *)
(***************************************************************************)
\* scan, nextPath taken from every idle entry
RECURSIVE scanTakingLast(_, _, _, _)
scanTakingLast(q, i, numInFlight, nextPath) ==
  IF i > Len(q) THEN [numInFlight |-> numInFlight, nextPath |-> nextPath]
  ELSE IF q[i].inFlight
       THEN IF numInFlight + 1 >= simultaneous /\ nextPath # NoPath
            THEN [numInFlight |-> numInFlight + 1, nextPath |-> nextPath]
            ELSE scanTakingLast(q, i + 1, numInFlight + 1, nextPath)
       ELSE scanTakingLast(q, i + 1, numInFlight, q[i].path)

\* the for loop of checkFetch / checkPut, from the i-th entry on
RECURSIVE scan(_, _, _, _)
scan(q, i, numInFlight, nextPath) ==
  IF i > Len(q) THEN [numInFlight |-> numInFlight, nextPath |-> nextPath]
  ELSE IF q[i].inFlight
       THEN IF numInFlight + 1 >= simultaneous /\ nextPath # NoPath
            THEN [numInFlight |-> numInFlight + 1, nextPath |-> nextPath]
            ELSE scan(q, i + 1, numInFlight + 1, nextPath)
       ELSE scan(q, i + 1, numInFlight,
                 IF nextPath = NoPath THEN q[i].path ELSE nextPath)

\* a JavaScript value that passes `if (value)`
truthy(value) == value \notin {Undefined, Null, ""}

\* getContentType, the extension consulted before the magic numbers
getContentTypeExtensionFirst(metadataType, sniffed, extension) ==
  IF truthy(metadataType) THEN metadataType
  ELSE IF truthy(extension) THEN extension
  ELSE IF truthy(sniffed) THEN sniffed
  ELSE "application/octet-stream"

\* Restore.getContentType
getContentType(metadataType, sniffed, extension) ==
  LET fromMetadata == metadataType
      afterSniff == IF ~truthy(fromMetadata) THEN sniffed ELSE fromMetadata
      afterExtension == IF ~truthy(afterSniff) THEN extension ELSE afterSniff
  IN  IF truthy(afterExtension) THEN afterExtension
      ELSE "application/octet-stream"

\* Restore.putDocument: the ETag it sends in If-None-Match.  The digest of
\* the file when options.etagAlgorithm is set, else putRecord.metadata?.ETag.
fileDigest(rsPath) == "md5 of " \o rsPath

metadataETag(metadata) ==
  IF metadata \in {NoMetadata, "untagged"} THEN Undefined
  ELSE "\"" \o metadata \o "-saved\""

\* fileETag, the saved ETag preferred to the digest
fileETagPreferringSaved(etagAlgorithm, rsPath, metadata) ==
  IF metadataETag(metadata) # Undefined THEN metadataETag(metadata)
  ELSE IF etagAlgorithm THEN "\"" \o fileDigest(rsPath) \o "\""
  ELSE Undefined

fileETag(etagAlgorithm, rsPath, metadata) ==
  IF etagAlgorithm THEN "\"" \o fileDigest(rsPath) \o "\""
  ELSE metadataETag(metadata)

\* Restore.putDocument: the putETag of its return value
putETag(status, serverETag, sent) ==
  CASE status \in {200, 201} -> serverETag
    [] status = 412 -> sent
    [] OTHER -> Undefined

\* Restore.putDocument: ...(fileETag && { "If-None-Match": fileETag }) among
\* the headers of the request
conditionalHeaders(sent) ==
  IF sent # Undefined THEN {[name |-> "If-None-Match", value |-> sent]}
  ELSE {}

\* fetchRecord.inFlight = true and the transfer's code up to its first
\* real suspension: the HTTP request (in Restore, the reads of the local
\* file that precede it).
launch(m, rsPath) ==
  [m EXCEPT !.queue[indexOf(m.queue, rsPath)].inFlight = TRUE,
            !.owed = {pair \in @ : pair[1] # rsPath /\ pair[2] # rsPath},
            !.requests[rsPath] = @ + 1,
            !.transfers = @ \cup
              {[path |-> rsPath, stage |-> "fetch", counted |-> FALSE,
                headers |-> IF mode = "restore"
                            THEN conditionalHeaders(
                                   fileETag(algorithm, rsPath,
                                            get(m.queue, rsPath).metadata))
                            ELSE {}]}]

\* dispatch, launching whenever a path waits
dispatchWithoutLimit(m) ==
  LET s == scan(m.queue, 1, 0, NoPath)
  IN  IF s.nextPath # NoPath
      THEN launch([m EXCEPT !.timers = IF s.numInFlight + 1 < simultaneous
                                       THEN @ + 1 ELSE @],
                  s.nextPath)
      ELSE m

\* dispatch, the timer set at every launch
dispatchAlwaysTimed(m) ==
  LET s == scan(m.queue, 1, 0, NoPath)
  IN  IF s.nextPath # NoPath /\ s.numInFlight < simultaneous
      THEN launch([m EXCEPT !.timers = @ + 1], s.nextPath)
      ELSE m

\* dispatch, scanning and launching a second time
dispatchTwice(m) ==
  LET once(x) ==
        LET s == scan(x.queue, 1, 0, NoPath)
        IN  IF s.nextPath # NoPath /\ s.numInFlight < simultaneous
            THEN launch([x EXCEPT !.timers = IF s.numInFlight + 1 < simultaneous
                                             THEN @ + 1 ELSE @],
                        s.nextPath)
            ELSE x
  IN  once(once(m))

\* checkFetch / checkPut after the await of the pause promise
dispatch(m) ==
  LET s == scan(m.queue, 1, 0, NoPath)
  IN  IF s.nextPath # NoPath /\ s.numInFlight < simultaneous
      THEN launch([m EXCEPT !.timers = IF s.numInFlight + 1 < simultaneous
                                       THEN @ + 1 ELSE @],
                  s.nextPath)
      ELSE m

\* checkFetch, returning when the promise is pending
checkFetchUnlessPaused(m) ==
  IF m.barriers[m.pausePrms].resolved THEN dispatch(m) ELSE m

\* checkFetch / checkPut: awaits the promise that this.pausePrms holds at
\* the time of the call.
checkFetch(m) ==
  IF m.barriers[m.pausePrms].resolved THEN dispatch(m)
  ELSE [m EXCEPT !.barriers[m.pausePrms].waiters = @ + 1]

RECURSIVE resume(_, _)
resume(m, n) == IF n = 0 \/ m.exited THEN m ELSE resume(dispatch(m), n - 1)

(***************************************************************************)
(* The transfer.                                                           *)
(***************************************************************************)
\* the transfer is suspended again, at the await of the body of the
\* response: in handle(), or in the log line that the 'default' label
\* reaches after ++fetchRecord.failures (counted) and 'case 504' without
suspend(m, rsPath, stage, counted) ==
  [m EXCEPT !.transfers =
     {IF t.path = rsPath THEN [t EXCEPT !.stage = stage, !.counted = counted]
      ELSE t : t \in @}]

\* giveUp without the dequeue
giveUpStillQueued(m, rsPath) == failedPathsAdd(m, rsPath)

giveUp(m, rsPath) ==
  Then(dequeue(m, rsPath), LAMBDA x : failedPathsAdd(x, rsPath))

\* finally without fetchRecord.inFlight = false
finallyStillInFlight(m, rsPath) ==
  LET moved ==
        IF has(m.queue, rsPath)
        THEN LET fetchRecord == get(m.queue, rsPath)
                 m1 == [m EXCEPT !.queue = set(delete(@, rsPath), fetchRecord)]
                 m2 == IF fetchRecord.failures >= MAX_FAILURES_PER_PATH
                       THEN giveUp(m1, rsPath) ELSE m1
             IN  Then(m2, LAMBDA x : IF x.isAbandoned THEN giveUp(x, rsPath) ELSE x)
        ELSE m
  IN  Then(moved, LAMBDA x :
        [x EXCEPT !.immediates = @ + 1,
                  !.transfers = {t \in @ : t.path # rsPath}])

\* finally without the move to the end of the queue
finallyInPlace(m, rsPath) ==
  LET moved ==
        IF has(m.queue, rsPath)
        THEN LET m1 == [m EXCEPT !.queue[indexOf(m.queue, rsPath)].inFlight = FALSE]
                 m2 == IF get(m.queue, rsPath).failures >= MAX_FAILURES_PER_PATH
                       THEN giveUp(m1, rsPath) ELSE m1
             IN  Then(m2, LAMBDA x : IF x.isAbandoned THEN giveUp(x, rsPath) ELSE x)
        ELSE m
  IN  Then(moved, LAMBDA x :
        [x EXCEPT !.immediates = @ + 1,
                  !.transfers = {t \in @ : t.path # rsPath}])

\* finally without setImmediate
finallyWithoutImmediate(m, rsPath) ==
  LET moved ==
        IF has(m.queue, rsPath)
        THEN LET fetchRecord == [get(m.queue, rsPath) EXCEPT !.inFlight = FALSE]
                 m1 == [m EXCEPT !.queue = set(delete(@, rsPath), fetchRecord)]
                 m2 == IF fetchRecord.failures >= MAX_FAILURES_PER_PATH
                       THEN giveUp(m1, rsPath) ELSE m1
             IN  Then(m2, LAMBDA x : IF x.isAbandoned THEN giveUp(x, rsPath) ELSE x)
        ELSE m
  IN  Then(moved, LAMBDA x :
        [x EXCEPT !.transfers = {t \in @ : t.path # rsPath}])

\* the finally block of fetchItem / putDocument; the history records the
\* entries that were idle when the entry of the transfer was kept
finally(m, rsPath) ==
  LET moved ==
        IF has(m.queue, rsPath)
        THEN LET fetchRecord == [get(m.queue, rsPath) EXCEPT !.inFlight = FALSE]
                 m1 == [m EXCEPT !.queue = set(delete(@, rsPath), fetchRecord)]
                 m2 == IF fetchRecord.failures >= MAX_FAILURES_PER_PATH
                       THEN giveUp(m1, rsPath) ELSE m1
             IN  Then(m2, LAMBDA x : IF x.isAbandoned THEN giveUp(x, rsPath) ELSE x)
        ELSE m
  IN  Then(moved, LAMBDA x :
        [x EXCEPT !.immediates = @ + 1,
                  !.transfers = {t \in @ : t.path # rsPath},
                  !.owed = IF has(x.queue, rsPath)
                           THEN @ \cup
                                {<<rsPath, x.queue[i].path>> :
                                   i \in {j \in 1..Len(x.queue) :
                                            /\ ~x.queue[j].inFlight
                                            /\ x.queue[j].path # rsPath}}
                           ELSE @])

\* for (const rsPath in items) this.enqueue(folderPath + rsPath)
RECURSIVE enqueueItems(_, _, _)
enqueueItems(m, folderPath, items) ==
  IF items = <<>> THEN m
  ELSE enqueueItems(enqueue(m, folderPath \o Head(items), NoMetadata),
                    folderPath, Tail(items))

\* fetchItemSwitch, the items of a folder enqueued when its response
\* arrives, before the directory is made
fetchItemSwitchEnqueuingEarly(m, rsPath, status, header) ==
  CASE status = 200 ->
         suspend(IF isFolder(rsPath)
                 THEN enqueueItems(m, rsPath, RemoteItems(rsPath)) ELSE m,
                 rsPath, "handle", FALSE)
    [] status \in {429, 503} -> Then(pause(m, header), LAMBDA x : finally(x, rsPath))
    [] status \in {401, 403} -> Then(giveUp(m, rsPath), LAMBDA x : finally(x, rsPath))
    [] status \in {404, 410} -> Then(giveUp(m, rsPath), LAMBDA x : finally(x, rsPath))
    [] status = 504 -> suspend(m, rsPath, "text", FALSE)
    [] OTHER -> suspend(incrementFailures(m, rsPath), rsPath, "text", TRUE)

\* fetchItemSwitch, 'case 504' placed above ++fetchRecord.failures
fetchItemSwitchCounting504(m, rsPath, status, header) ==
  CASE status = 200 -> suspend(m, rsPath, "handle", FALSE)
    [] status \in {429, 503} -> Then(pause(m, header), LAMBDA x : finally(x, rsPath))
    [] status \in {401, 403} -> Then(giveUp(m, rsPath), LAMBDA x : finally(x, rsPath))
    [] status \in {404, 410} -> Then(giveUp(m, rsPath), LAMBDA x : finally(x, rsPath))
    [] OTHER -> suspend(incrementFailures(m, rsPath), rsPath, "text", TRUE)

\* the switch of Backup.fetchItem on res.status
fetchItemSwitch(m, rsPath, status, header) ==
  CASE status = 200 -> suspend(m, rsPath, "handle", FALSE)
    [] status \in {429, 503} -> Then(pause(m, header), LAMBDA x : finally(x, rsPath))
    [] status \in {401, 403} -> Then(giveUp(m, rsPath), LAMBDA x : finally(x, rsPath))
    [] status \in {404, 410} -> Then(giveUp(m, rsPath), LAMBDA x : finally(x, rsPath))
    [] status = 504 -> suspend(m, rsPath, "text", FALSE)
    [] OTHER -> suspend(incrementFailures(m, rsPath), rsPath, "text", TRUE)

\* putDocumentSwitch, 412 handled as a refusal
putDocumentSwitchRefusing412(m, rsPath, status, header) ==
  CASE status \in {200, 201} ->
         Then(dequeue([m EXCEPT !.transferred = @ \cup {rsPath}], rsPath),
              LAMBDA x : finally(x, rsPath))
    [] status \in {429, 503} -> Then(pause(m, header), LAMBDA x : finally(x, rsPath))
    [] status \in {401, 403, 412} -> Then(giveUp(m, rsPath), LAMBDA x : finally(x, rsPath))
    [] status = 504 -> suspend(m, rsPath, "text", FALSE)
    [] OTHER -> suspend(incrementFailures(m, rsPath), rsPath, "text", TRUE)

\* the switch of Restore.putDocument on res.status
putDocumentSwitch(m, rsPath, status, header) ==
  CASE status \in {200, 201, 412} ->
         Then(dequeue([m EXCEPT !.transferred = @ \cup {rsPath}], rsPath),
              LAMBDA x : finally(x, rsPath))
    [] status \in {429, 503} -> Then(pause(m, header), LAMBDA x : finally(x, rsPath))
    [] status \in {401, 403} -> Then(giveUp(m, rsPath), LAMBDA x : finally(x, rsPath))
    [] status = 504 -> suspend(m, rsPath, "text", FALSE)
    [] OTHER -> suspend(incrementFailures(m, rsPath), rsPath, "text", TRUE)

\* the catch block
catch(m, rsPath) == finally(incrementFailures(m, rsPath), rsPath)

\* handleFolder, the folder dequeued before its items are enqueued
handleFolderDequeuingFirst(m, folderPath) ==
  Then(dequeue([m EXCEPT !.transferred = @ \cup {folderPath}], folderPath),
       LAMBDA x : enqueueItems(x, folderPath, RemoteItems(folderPath)))

\* Backup.handleFolder after its awaits (body read, mkdir, writeFile)
handleFolder(m, folderPath) ==
  LET m1 == enqueueItems(m, folderPath, RemoteItems(folderPath))
  IN  dequeue([m1 EXCEPT !.transferred = @ \cup {folderPath}], folderPath)

\* Backup.handleDocument after its await (writeFile)
handleDocument(m, rsPath) ==
  dequeue([m EXCEPT !.transferred = @ \cup {rsPath}], rsPath)

(***************************************************************************)
(* Steps.                                                                  *)
(***************************************************************************)
Event(op, rsPath) == [op |-> op, path |-> rsPath]

\* a response that does not end the transfer of the path in success
faulty(status) ==
  IF mode = "backup" THEN status # 200 ELSE status \notin {200, 201, 412}

constantOptionsButCall ==
  UNCHANGED <<mode, simultaneous, category, includePublic, algorithm>>

\* the options never change; no function is called on its own in a run
constantOptions ==
  UNCHANGED <<mode, simultaneous, category, includePublic, algorithm, call,
              returned>>

\* withPublic without the test of the category
withPublicAlways == includePublic

initialFolder == IF category # "" THEN "/" \o category \o "/" ELSE "/"

withPublic == includePublic /\ category # "" /\ category # "public"

\* execute() up to its first suspension: the rename of the old backup
\* directory (Backup), the first read of the local directory (Restore).
\* backup.js installs the signal handlers right after this call.
ExecuteCall ==
  /\ ~exited /\ started = "no"
  /\ started' = "prelude"
  /\ ev' = Event("execute", NoPath)
  /\ constantOptions
  /\ UNCHANGED <<queue, failedPaths, pausePrms, barriers, defaultRetryAfterMs,
                 isAbandoned, exited, exitCode, timers, immediates, transfers,
                 hardExitTimers, faultsLeft, everEnqueued, fallbacks, transferred,
                 owed, requests>>

\* the sequences that list every element of S once
Orders(S) ==
  {o \in [1..Cardinality(S) -> S] : \A i, j \in 1..Cardinality(S) : o[i] = o[j] => i = j}

RECURSIVE enqueueFiles(_, _)
enqueueFiles(m, files) ==
  IF files = <<>> THEN m
  ELSE enqueueFiles(enqueue(m, Head(files), LocalMetadata(Head(files))), Tail(files))

\* Restore.listDirectory: the regular files below the folder, in the order
\* in which the directory streams yield them
listDirectory(m, folderPath, order) ==
  IF m.isAbandoned THEN m ELSE enqueueFiles(m, order)

(***************************************************************************)
(* The walk of a local directory tree.  A directory is its description     *)
(* file (missing or unusable: not parsed; else its items, name and         *)
(* metadata) and its entries in the order in which opendir yields them.    *)
(* The name of an entry is the sequence of its parts, a leading "." first. *)
(***************************************************************************)
FOLDER_DESCRIPTION == "000_folder-description.json"

RECURSIVE text(_)
text(name) == IF name = <<>> THEN "" ELSE Head(name) \o text(Tail(name))

\* folderDescription.items[dirEnt.name]
itemOf(description, name) ==
  IF description.parsed /\ \E item \in description.items : item.name = name
  THEN (CHOOSE item \in description.items : item.name = name).metadata
  ELSE NoMetadata

\* skipped, dotfiles kept
skippedDescriptionOnly(dirEnt) == dirEnt.name = <<FOLDER_DESCRIPTION>>

\* FOLDER_DESCRIPTION === dirEnt.name || '.' === dirEnt.name[0]
skipped(dirEnt) ==
  dirEnt.name = <<FOLDER_DESCRIPTION>> \/ dirEnt.name[1] = "."

RECURSIVE listDirectoryOf(_, _, _)
RECURSIVE forEachEntry(_, _, _, _)
\* Restore.listDirectory: for await (const dirEnt of fsDir)
forEachEntry(m, dir, folderPath, i) ==
  IF i > Len(dir.entries) THEN m
  ELSE LET dirEnt == dir.entries[i]
           m1 == IF skipped(dirEnt) THEN m
                 ELSE IF dirEnt.kind = "file"
                 THEN enqueue(m, folderPath \o text(dirEnt.name),
                              itemOf(dir.description, dirEnt.name))
                 ELSE IF dirEnt.kind = "directory"
                 THEN listDirectoryOf(m, dirEnt.dir,
                                      folderPath \o text(dirEnt.name) \o "/")
                 ELSE m
       IN  forEachEntry(m1, dir, folderPath, i + 1)

\* Restore.listDirectory on the directory dir, whose remote path is folderPath
listDirectoryOf(m, dir, folderPath) ==
  IF m.isAbandoned THEN m ELSE forEachEntry(m, dir, folderPath, 1)

\* Backup.execute: the folders it enqueues
enqueueInitial(m) ==
  LET m1 == enqueue(m, initialFolder, NoMetadata)
  IN  IF withPublic THEN enqueue(m1, "/public" \o initialFolder, NoMetadata)
      ELSE m1

\* the rest of Backup.execute
BackupSeed ==
  /\ ~exited /\ started = "prelude" /\ mode = "backup"
  /\ Commit(checkFetch(enqueueInitial(this)))
  /\ started' = "yes"
  /\ ev' = Event("seed", NoPath)
  /\ constantOptions
  /\ UNCHANGED <<hardExitTimers, faultsLeft>>

\* listInitial, the public folder walked first
listPublicFirst(m, o1, o2, found) ==
  LET m1 == IF withPublic /\ found
            THEN listDirectory(m, "/public" \o initialFolder, o2)
            ELSE m
  IN  listDirectory(m1, initialFolder, o1)

\* Restore.execute: the two walks of the local tree.  opendir of the public
\* folder may reject (found = FALSE): execute catches the error and goes on.
listInitial(m, o1, o2, found) ==
  LET m1 == listDirectory(m, initialFolder, o1)
  IN  IF withPublic /\ found
      THEN listDirectory(m1, "/public" \o initialFolder, o2)
      ELSE m1

\* the rest of Restore.execute
RestoreSeed ==
  /\ ~exited /\ started = "prelude" /\ mode = "restore"
  /\ \E o1 \in Orders(LocalFiles(initialFolder)) :
       \E o2 \in Orders(LocalFiles("/public" \o initialFolder)) :
         \E found \in BOOLEAN :
           Commit(checkFetch(listInitial(this, o1, o2, found)))
  /\ started' = "yes"
  /\ ev' = Event("seed", NoPath)
  /\ constantOptions
  /\ UNCHANGED <<hardExitTimers, faultsLeft>>

\* the callback of setTimeout(this.checkFetch.bind(this), 1)
TimerFires ==
  /\ ~exited /\ timers > 0 /\ immediates = 0
  /\ Commit(checkFetch([this EXCEPT !.timers = @ - 1]))
  /\ ev' = Event("timer", NoPath)
  /\ constantOptions
  /\ UNCHANGED <<started, hardExitTimers, faultsLeft>>

\* the callback of setImmediate(this.checkFetch.bind(this))
ImmediateFires ==
  /\ ~exited /\ immediates > 0
  /\ Commit(checkFetch([this EXCEPT !.immediates = @ - 1]))
  /\ ev' = Event("immediate", NoPath)
  /\ constantOptions
  /\ UNCHANGED <<started, hardExitTimers, faultsLeft>>

\* setTimeout(res, retryAfterMs) fires: the pause promise resolves and the
\* checkFetch calls that await it continue, one after the other.  The timer
\* of a promise fires before that of a promise created earlier only if its
\* delay is the shorter one.
PauseEnds(b) ==
  /\ ~exited /\ ~barriers[b].resolved /\ immediates = 0
  /\ \A a \in 1..(b - 1) :
       ~barriers[a].resolved =>
         less(barriers[b].retryAfterMs, barriers[a].retryAfterMs)
  /\ LET m1 == IF b = pausePrms
               THEN [this EXCEPT !.barriers[b].resolved = TRUE,
                                 !.barriers[b].waiters = 0,
                                 !.barriers[b].retryAfterMs = Ms(0)]
               ELSE [this EXCEPT
                       !.barriers = [i \in 1..(Len(@) - 1) |->
                                       IF i < b THEN @[i] ELSE @[i + 1]],
                       !.pausePrms = @ - 1]
     IN  Commit(resume(m1, barriers[b].waiters))
  /\ ev' = Event("resume", NoPath)
  /\ constantOptions
  /\ UNCHANGED <<started, hardExitTimers, faultsLeft>>

\* the request of a transfer settles with a response
Response(rsPath, status, header) ==
  /\ ~exited /\ \E t \in transfers : t.path = rsPath /\ t.stage = "fetch"
  /\ timers <= MaxTimers
  /\ status \notin {429, 503} => header = NoHeader
  /\ faulty(status) => faultsLeft > 0
  /\ faultsLeft' = IF faulty(status) THEN faultsLeft - 1 ELSE faultsLeft
  /\ IF mode = "backup"
     THEN Commit(fetchItemSwitch(this, rsPath, status, header))
     ELSE Commit(putDocumentSwitch(this, rsPath, status, header))
  /\ ev' = Event("response", rsPath)
  /\ constantOptions
  /\ UNCHANGED <<started, hardExitTimers>>

\* an await inside the try block rejects: the request itself, the read of
\* the response body, mkdir or writeFile (Backup), the reads of the local
\* file before the request (Restore: stat, type sniffing, digest and the
\* opening of the body stream, recorded as "read")
Throws(rsPath) ==
  /\ ~exited /\ \E t \in transfers : t.path = rsPath
  /\ timers <= MaxTimers
  /\ faultsLeft > 0
  /\ faultsLeft' = faultsLeft - 1
  /\ Commit(catch(this, rsPath))
  /\ \E t \in transfers :
       /\ t.path = rsPath
       /\ \E op \in (IF mode = "restore" /\ t.stage = "fetch"
                     THEN {"throw", "read"} ELSE {"throw"}) :
            ev' = Event(op, rsPath)
  /\ constantOptions
  /\ UNCHANGED <<started, hardExitTimers>>

\* the awaits of handleFolder / handleDocument are fulfilled
Handled(rsPath) ==
  /\ ~exited /\ \E t \in transfers : t.path = rsPath /\ t.stage = "handle"
  /\ timers <= MaxTimers
  /\ LET m1 == IF isFolder(rsPath) THEN handleFolder(this, rsPath)
               ELSE handleDocument(this, rsPath)
     IN  Commit(Then(m1, LAMBDA x : finally(x, rsPath)))
  /\ ev' = Event("handled", rsPath)
  /\ constantOptions
  /\ UNCHANGED <<started, hardExitTimers, faultsLeft>>

\* await res.text() of the 'will retry' log line is fulfilled
TextRead(rsPath) ==
  /\ ~exited /\ \E t \in transfers : t.path = rsPath /\ t.stage = "text"
  /\ timers <= MaxTimers
  /\ Commit(finally(this, rsPath))
  /\ ev' = Event("text", rsPath)
  /\ constantOptions
  /\ UNCHANGED <<started, hardExitTimers, faultsLeft>>

\* handleInterruption without its setTimeout
handleInterruptionWithoutTimer ==
  /\ ~exited /\ started # "no" /\ mode = "backup" /\ faultsLeft > 0
  /\ faultsLeft' = faultsLeft - 1
  /\ Commit(abandonGracefully(this))
  /\ ev' = Event("signal", NoPath)
  /\ constantOptions
  /\ UNCHANGED <<started, hardExitTimers>>

\* backup.js handleInterruption: SIGINT, SIGTERM, SIGQUIT or SIGHUP
handleInterruption ==
  /\ ~exited /\ started # "no" /\ mode = "backup" /\ faultsLeft > 0
  /\ faultsLeft' = faultsLeft - 1
  /\ Commit(abandonGracefully(this))
  /\ hardExitTimers' = hardExitTimers + 1
  /\ ev' = Event("signal", NoPath)
  /\ constantOptions
  /\ UNCHANGED <<started>>

\* the signal handler of the restore command
RestoreInterruption ==
  /\ ~exited /\ started # "no" /\ mode = "restore" /\ faultsLeft > 0
  /\ faultsLeft' = faultsLeft - 1
  /\ Commit(abandonGracefully(this))
  /\ ev' = Event("signal", NoPath)
  /\ constantOptions
  /\ UNCHANGED <<started, hardExitTimers>>

\* the 10 s timer of handleInterruption fires
HardExit ==
  /\ ~exited /\ hardExitTimers > 0 /\ immediates = 0
  /\ exited' = TRUE
  /\ exitCode' = 3
  /\ hardExitTimers' = hardExitTimers - 1
  /\ ev' = Event("hardExit", NoPath)
  /\ constantOptions
  /\ UNCHANGED <<started, queue, failedPaths, pausePrms, barriers,
                 defaultRetryAfterMs, isAbandoned, timers, immediates,
                 transfers, faultsLeft, everEnqueued, fallbacks, transferred,
                 owed, requests>>

\* a caller of the class (the folder handler, the directory listing, a
\* test) calls enqueue for a path that the queue holds
EnqueueCall(rsPath, metadata) ==
  /\ ~exited /\ started = "yes" /\ has(queue, rsPath)
  /\ Commit(enqueue(this, rsPath, metadata))
  /\ ev' = Event("enqueue", rsPath)
  /\ constantOptions
  /\ UNCHANGED <<started, hardExitTimers, faultsLeft>>

\* the state after construction
constructed ==
  /\ mode \in {"backup", "restore"}
  /\ simultaneous \in 1..MaxSimultaneous
  /\ started = "no"
  /\ queue = <<>>
  /\ failedPaths = {}
  /\ barriers = <<[resolved |-> TRUE, waiters |-> 0, retryAfterMs |-> Ms(0)]>>
  /\ pausePrms = 1
  /\ defaultRetryAfterMs = Ms(InitialRetryAfterMs)
  /\ isAbandoned = FALSE
  /\ exited = FALSE
  /\ exitCode = 0
  /\ timers = 0
  /\ immediates = 0
  /\ transfers = {}
  /\ hardExitTimers = 0
  /\ everEnqueued = {}
  /\ fallbacks = 0
  /\ owed = {}
  /\ requests = [rsPath \in Paths |-> 0]
  /\ transferred = {}
  /\ ev = Event("new", NoPath)
  /\ returned = NotReturned

\* --include-public has no effect without a category
Init ==
  /\ constructed
  /\ category \in Categories
  /\ includePublic \in (IF category = "" THEN {FALSE} ELSE BOOLEAN)
  /\ faultsLeft = MaxFaults
  /\ algorithm = FALSE
  /\ call = NoCall

\* runs of one category in which more goes wrong
InitDeep ==
  /\ constructed
  /\ category = "foo"
  /\ includePublic = FALSE
  /\ faultsLeft = MaxFaultsDeep
  /\ algorithm = FALSE
  /\ call = NoCall

Next ==
  \/ ExecuteCall
  \/ BackupSeed
  \/ RestoreSeed
  \/ TimerFires
  \/ ImmediateFires
  \/ \E b \in 1..Len(barriers) : PauseEnds(b)
  \/ \E rsPath \in Paths, status \in Statuses, header \in RetryAfterHeaders :
       Response(rsPath, status, header)
  \/ \E rsPath \in Paths : Throws(rsPath)
  \/ \E rsPath \in Paths : Handled(rsPath)
  \/ \E rsPath \in Paths : TextRead(rsPath)
  \/ handleInterruption
  \/ RestoreInterruption
  \/ HardExit

Spec == Init /\ [][Next]_vars

\* runs of one category in which enqueue is also called from outside
InitApi ==
  /\ constructed
  /\ category = "foo"
  /\ includePublic \in BOOLEAN
  /\ faultsLeft = MaxFaults
  /\ algorithm = FALSE
  /\ call = NoCall

NextApi ==
  \/ Next
  \/ \E rsPath \in Paths, metadata \in Metadata : EnqueueCall(rsPath, metadata)

SpecApi == InitApi /\ [][NextApi]_vars

SpecDeep == InitDeep /\ [][Next]_vars

\* The steps that the event loop and the server take sooner or later: the
\* awaited promises settle, the timers and the immediates fire, every
\* request is answered.  A signal or a failing request may never come.
Progress ==
  \/ ExecuteCall
  \/ BackupSeed
  \/ RestoreSeed
  \/ TimerFires
  \/ ImmediateFires
  \/ \E b \in 1..Len(barriers) : PauseEnds(b)
  \/ \E rsPath \in Paths, status \in Statuses, header \in RetryAfterHeaders :
       Response(rsPath, status, header)
  \/ \E rsPath \in Paths : Handled(rsPath)
  \/ \E rsPath \in Paths : TextRead(rsPath)
  \/ HardExit

\* one category, with or without its public folder
InitFair ==
  /\ constructed
  /\ category \in BareCategories
  /\ includePublic \in (IF category = "foo" THEN BOOLEAN ELSE {FALSE})
  /\ faultsLeft = MaxFaultsFair
  /\ algorithm = FALSE
  /\ call = NoCall

FairSpec == InitFair /\ [][Next]_vars /\ WF_vars(Progress)

\* a server that never answers 429, 503 or 504: no pause ever begins
NextSteady ==
  \/ ExecuteCall
  \/ BackupSeed
  \/ RestoreSeed
  \/ TimerFires
  \/ ImmediateFires
  \/ \E rsPath \in Paths, status \in Statuses \ {429, 503, 504} :
       Response(rsPath, status, NoHeader)
  \/ \E rsPath \in Paths : Throws(rsPath)
  \/ \E rsPath \in Paths : Handled(rsPath)
  \/ \E rsPath \in Paths : TextRead(rsPath)
  \/ handleInterruption
  \/ RestoreInterruption
  \/ HardExit

ProgressSteady ==
  \/ ExecuteCall
  \/ BackupSeed
  \/ RestoreSeed
  \/ TimerFires
  \/ ImmediateFires
  \/ \E rsPath \in Paths, status \in Statuses \ {429, 503, 504} :
       Response(rsPath, status, NoHeader)
  \/ \E rsPath \in Paths : Handled(rsPath)
  \/ \E rsPath \in Paths : TextRead(rsPath)
  \/ HardExit

InitSteady ==
  /\ constructed
  /\ category \in BareCategories
  /\ includePublic = FALSE
  /\ faultsLeft = MaxFaultsSteady
  /\ algorithm = FALSE
  /\ call = NoCall

SteadySpec == InitSteady /\ [][NextSteady]_vars /\ WF_vars(ProgressSteady)

\* a Backup against a server that answers 200, or 429 or 503 without a
\* usable Retry-After; no signal, no failing request
NextThrottled ==
  \/ ExecuteCall
  \/ BackupSeed
  \/ TimerFires
  \/ ImmediateFires
  \/ \E b \in 1..Len(barriers) : PauseEnds(b)
  \/ \E rsPath \in Paths, status \in {200, 429, 503}, header \in UnusableHeaders :
       Response(rsPath, status, header)
  \/ \E rsPath \in Paths : Handled(rsPath)

InitThrottled ==
  /\ constructed
  /\ mode = "backup"
  /\ category = "foo"
  /\ includePublic = FALSE
  /\ faultsLeft = MaxFaultsThrottled
  /\ algorithm = FALSE
  /\ call = NoCall

ThrottledSpec == InitThrottled /\ [][NextThrottled]_vars /\ WF_vars(NextThrottled)

\* everything but call and returned stays as it is
runUntouched ==
  /\ constantOptionsButCall
  /\ UNCHANGED <<started, queue, failedPaths, pausePrms, barriers,
                 defaultRetryAfterMs, isAbandoned, exited, exitCode, timers,
                 immediates, transfers, hardExitTimers, faultsLeft,
                 everEnqueued, fallbacks, transferred, owed, requests, ev>>

\* a Restore whose getContentType is called on its own, as the tests do
InitContentType ==
  /\ constructed
  /\ mode = "restore" /\ simultaneous = 1
  /\ category = "" /\ includePublic = FALSE /\ algorithm = FALSE
  /\ faultsLeft = 0
  /\ call \in [op : {"getContentType"}, metadataType : MetadataTypes,
               sniffed : SniffedTypes, extension : ExtensionTypes]

GetContentTypeCall ==
  /\ call.op = "getContentType" /\ returned = NotReturned
  /\ returned' = getContentType(call.metadataType, call.sniffed, call.extension)
  /\ UNCHANGED call
  /\ runUntouched

SpecContentType == InitContentType /\ [][GetContentTypeCall]_vars

\* the paths of the queues that the dispatcher is called on, in order
QueuePaths ==
  <<"/c", "/foo/", "/foo/a", "/public/foo/", "/public/foo/b", "/public/", "/">>

\* a run with a queue of up to MaxQueue entries, of which any, but no more
\* than `simultaneous`, are in flight, each with its transfer awaiting its
\* response; the dispatcher is called once, as the tests do
InitScan ==
  /\ mode \in {"backup", "restore"}
  /\ simultaneous \in 1..MaxSimultaneous
  /\ category = "" /\ includePublic = FALSE /\ algorithm = FALSE
  /\ started = "yes"
  /\ \E k \in 0..MaxQueue : \E flags \in [1..k -> BOOLEAN] :
       /\ Cardinality({i \in 1..k : flags[i]}) <= simultaneous
       /\ queue = [i \in 1..k |->
                     [path |-> QueuePaths[i], inFlight |-> flags[i],
                      failures |-> 0, metadata |-> NoMetadata]]
       /\ transfers = {[path |-> QueuePaths[i], stage |-> "fetch",
                        counted |-> FALSE, headers |-> {}] :
                       i \in {j \in 1..k : flags[j]}}
       /\ everEnqueued = {QueuePaths[i] : i \in 1..k}
  /\ failedPaths = {}
  /\ barriers = <<[resolved |-> TRUE, waiters |-> 0, retryAfterMs |-> Ms(0)]>>
  /\ pausePrms = 1
  /\ defaultRetryAfterMs = Ms(InitialRetryAfterMs)
  /\ isAbandoned = FALSE
  /\ exited = FALSE
  /\ exitCode = 0
  /\ timers = 0
  /\ immediates = 0
  /\ hardExitTimers = 0
  /\ fallbacks = 0
  /\ owed = {}
  /\ requests = [rsPath \in Paths |-> 0]
  /\ transferred = {}
  /\ faultsLeft = 0
  /\ ev = Event("new", NoPath)
  /\ call = [op |-> "checkFetch", queue |-> queue]
  /\ returned = NotReturned

CheckFetchCall ==
  /\ call.op = "checkFetch" /\ returned = NotReturned
  /\ Commit(checkFetch(this))
  /\ returned' = Undefined
  /\ constantOptionsButCall
  /\ UNCHANGED <<call, started, hardExitTimers, faultsLeft, ev>>

SpecScan == InitScan /\ [][CheckFetchCall]_vars

\* a Restore whose listDirectory is called on its own, as the tests do
InitWalk ==
  /\ constructed
  /\ mode = "restore" /\ simultaneous = 1
  /\ category = "" /\ includePublic = FALSE /\ algorithm = FALSE
  /\ faultsLeft = 0
  /\ call \in [op : {"listDirectory"}, dir : Trees]

ListDirectoryCall ==
  /\ call.op = "listDirectory" /\ returned = NotReturned
  /\ Commit(listDirectoryOf(this, call.dir, "/"))
  /\ returned' = Undefined
  /\ constantOptionsButCall
  /\ UNCHANGED <<call, started, hardExitTimers, faultsLeft, ev>>

SpecWalk == InitWalk /\ [][ListDirectoryCall]_vars

\* every combination of the options category and includePublic
InitWide ==
  /\ constructed
  /\ category \in AllCategories
  /\ includePublic \in BOOLEAN
  /\ faultsLeft = MaxFaultsWide
  /\ algorithm \in (IF mode = "restore" THEN BOOLEAN ELSE {FALSE})
  /\ call = NoCall

SpecWide == InitWide /\ [][Next]_vars

TypeOK ==
  /\ \A i \in 1..Len(queue) : queue[i].path \in Paths /\ queue[i].failures \in 0..MAX_FAILURES_PER_PATH
  /\ failedPaths \subseteq Paths
  /\ pausePrms \in 1..Len(barriers)

(***************************************************************************)
(* Properties.                                                             *)
(***************************************************************************)
numInFlight(q) == Cardinality({i \in 1..Len(q) : q[i].inFlight})

idle(q) == {q[i].path : i \in {j \in 1..Len(q) : ~q[j].inFlight}}

\* complete() has run
completed == exited /\ exitCode # 3

\* abandonGracefully runs in this step
abandons == ev'.op = "signal" \/ (~isAbandoned /\ isAbandoned')

\* C1: in every reachable state the number of queue entries whose inFlight
\* flag is true is at most `simultaneous`.
C1_InFlightWithinLimit == numInFlight(queue) <= simultaneous

\* the limit binds: a dispatcher call has just run, as many entries as
\* allowed are in flight and another entry waits
C1_Witness ==
  /\ ev.op \in {"timer", "immediate"}
  /\ numInFlight(queue) = simultaneous
  /\ idle(queue) # {}

\* C2: when completion runs in a run that was not abandoned, every path
\* that was ever enqueued was either transferred successfully or is in the
\* failed-paths set that completion summarizes, and not both.
C2_ExactlyOneOutcome ==
  (completed /\ ~isAbandoned) =>
    \A rsPath \in everEnqueued : (rsPath \in transferred) # (rsPath \in failedPaths)

\* C3: when abandonGracefully runs, every entry that is not in flight is
\* removed from the queue and its path is in the failed-paths set afterwards.
C3_AbandonedAreFailed ==
  [][abandons =>
       \A rsPath \in idle(queue) :
         ~has(queue', rsPath) /\ rsPath \in failedPaths']_vars


\* a step of the transfer of rsPath
stepOf(rsPath) ==
  ev'.path = rsPath /\ ev'.op \in {"response", "throw", "read", "handled", "text"}

\* the transfer of rsPath ends in this step
finishes(rsPath) ==
  /\ stepOf(rsPath)
  /\ exited' \/ ~\E t \in transfers' : t.path = rsPath

\* the transfer of rsPath in flight
transferOf(rsPath) == CHOOSE t \in transfers : t.path = rsPath

\* the count its entry is left with: the catch block counts a rejection
leftWith(rsPath) ==
  get(queue, rsPath).failures + (IF ev'.op \in {"throw", "read"} THEN 1 ELSE 0)

\* the count its entry had when the transfer was launched
launchedWith(rsPath) ==
  get(queue, rsPath).failures - (IF transferOf(rsPath).counted THEN 1 ELSE 0)

\* the entry of rsPath is idle at the end of the queue
requeued(q, rsPath) ==
  /\ has(q, rsPath)
  /\ q[Len(q)].path = rsPath
  /\ ~q[Len(q)].inFlight

permanent == {401, 403, 404, 410}

\* C4: whenever a transfer finishes and leaves its entry with 3 or more
\* failures, the entry is dequeued and the path is added to the failed-paths
\* set in that step; an entry that stays queued after a transfer finishes has
\* at most 2 failures; no path is given up for failures below 3.
C4_RetryCap ==
  [][\A rsPath \in Paths : finishes(rsPath) /\ has(queue, rsPath) =>
       /\ leftWith(rsPath) >= MAX_FAILURES_PER_PATH =>
            ~has(queue', rsPath) /\ rsPath \in failedPaths'
       /\ has(queue', rsPath) =>
            get(queue', rsPath).failures < MAX_FAILURES_PER_PATH
       /\ rsPath \in failedPaths' \ failedPaths =>
            \/ leftWith(rsPath) >= MAX_FAILURES_PER_PATH
            \/ isAbandoned'
            \/ \E status \in permanent : Response(rsPath, status, NoHeader)]_vars

\* the response with this status and header arrives for rsPath in this step
\* and its Retry-After does not make the run abandon
pausedBy(rsPath, status, header) ==
  /\ ~exceeds(extractRetryAfterMs(this, header).retryAfterMs, OneHourMs)
  /\ Response(rsPath, status, header)

\* what a 429 or 503 does to the barrier, the entry and the failed paths
pausedAndRequeued(rsPath) ==
  /\ ~barriers'[pausePrms'].resolved
  /\ barriers'[pausePrms'].waiters = 0
  /\ requeued(queue', rsPath)
  /\ get(queue', rsPath).failures = get(queue, rsPath).failures
  /\ rsPath \notin failedPaths'

\* C5 as stated: a transfer that receives 429 or 503 whose Retry-After does
\* not trigger abandonment installs a new pause barrier, leaves failures
\* unchanged, clears inFlight, moves the entry to the end of the queue and
\* does not add the path to the failed-paths set.
C5_PauseKeepsEntry ==
  [][ev'.op = "response" =>
       \A status \in {429, 503}, header \in RetryAfterHeaders :
         pausedBy(ev'.path, status, header) => pausedAndRequeued(ev'.path)]_vars

\* C5 amended: the same, for a run that was not abandoned before the
\* response arrived either.
C5_PauseKeepsEntryUnlessAbandoned ==
  [][ev'.op = "response" /\ ~isAbandoned =>
       \A status \in {429, 503}, header \in RetryAfterHeaders :
         pausedBy(ev'.path, status, header) => pausedAndRequeued(ev'.path)]_vars

\* a 429 or 503 was just handled in a run that is not abandoned: its entry
\* waits behind another one, and the dispatcher is paused
C5_Witness ==
  /\ ev.op = "response"
  /\ ~isAbandoned /\ ~exited
  /\ Len(queue) > 1
  /\ requeued(queue, ev.path)
  /\ ~barriers[pausePrms].resolved /\ barriers[pausePrms].waiters = 0

\* a transfer is launched in this step
launches == \E t \in transfers' \ transfers : t.stage = "fetch"

\* C6: a transfer is launched only when the pause barrier installed last
\* has resolved.
C6_NoLaunchWhilePaused ==
  [][launches => barriers'[pausePrms'].resolved]_vars

\* C7: a transfer that receives 401, 403, 404 or 410 dequeues the path in
\* that step and adds it to the failed-paths set.
C7_PermanentGivesUp ==
  [][\A rsPath \in Paths, status \in permanent :
       ev'.op = "response" /\ Response(rsPath, status, NoHeader) =>
         ~has(queue', rsPath) /\ rsPath \in failedPaths']_vars

\* the attempt ends in a transient failure: an await rejects, or the body
\* of a response counted as a failure has been read
transientEnd(rsPath) ==
  \/ ev'.op \in {"throw", "read"}
  \/ ev'.op = "text" /\ transferOf(rsPath).counted

\* C8: an attempt that ends in a transient failure leaves the entry, when
\* it stays queued, idle at the end of the queue with exactly one failure
\* more than it had at launch.
C8_OneFailurePerAttempt ==
  [][\A rsPath \in Paths :
       finishes(rsPath) /\ has(queue, rsPath) /\ transientEnd(rsPath)
         /\ has(queue', rsPath) =>
           /\ requeued(queue', rsPath)
           /\ get(queue', rsPath).failures = launchedWith(rsPath) + 1]_vars

\* the transfer of rsPath received 504 and awaits the body
received504(rsPath) ==
  \E t \in transfers : t.path = rsPath /\ t.stage = "text" /\ ~t.counted

\* what a 504 leaves: the entry idle at the end of the queue, with the
\* failures it had, and the path not failed
retriedUncounted(rsPath) ==
  /\ requeued(queue', rsPath)
  /\ get(queue', rsPath).failures = get(queue, rsPath).failures
  /\ rsPath \notin failedPaths'

\* C9 as stated: a transfer that received 504 ends with the entry's
\* failures unchanged, inFlight cleared and the entry at the end of the
\* queue; it is not given up.
C9_504Uncounted ==
  [][\A rsPath \in Paths :
       /\ ev'.op = "response" /\ Response(rsPath, 504, NoHeader) =>
            has(queue', rsPath) /\ get(queue', rsPath) = get(queue, rsPath)
       /\ finishes(rsPath) /\ received504(rsPath) =>
            retriedUncounted(rsPath)]_vars

\* C9 amended: the same, when the body of the 504 response is read without
\* error and the run is not abandoned.
C9_504UncountedWhenRead ==
  [][\A rsPath \in Paths :
       /\ ev'.op = "response" /\ Response(rsPath, 504, NoHeader) =>
            has(queue', rsPath) /\ get(queue', rsPath) = get(queue, rsPath)
       /\ finishes(rsPath) /\ received504(rsPath) /\ ev'.op = "text"
            /\ ~isAbandoned =>
            retriedUncounted(rsPath)]_vars

\* an attempt answered 504 has ended: its entry, never counted a failure,
\* waits idle behind another one
C9_Witness ==
  /\ ev.op = "text" /\ ~isAbandoned /\ ~exited
  /\ Len(queue) > 1
  /\ requeued(queue, ev.path)
  /\ get(queue, ev.path).failures = 0

\* C10: enqueue of a path that is in the queue leaves the queue as it is
\* (size, order, and the entry's inFlight, failures and metadata); no path
\* is in the queue twice.
C10_EnqueueIdempotent ==
  [][/\ \A rsPath \in Paths, metadata \in Metadata :
          ev'.op = "enqueue" /\ EnqueueCall(rsPath, metadata) => queue' = queue
     /\ \A i, j \in 1..Len(queue') :
          queue'[i].path = queue'[j].path => i = j]_vars

\* enqueue was just called for a path whose entry is in flight or has failed
C10_Witness ==
  /\ ev.op = "enqueue"
  /\ has(queue, ev.path)
  /\ get(queue, ev.path).inFlight \/ get(queue, ev.path).failures > 0
  /\ get(queue, ev.path).metadata = "described"

\* C11: once isAbandoned is set, enqueue(path) and Restore's
\* listDirectory(folder) leave the queue as it is, whatever the path, the
\* folder and its files; no step of an abandoned run adds a key to the queue.
C11_AbandonedEnqueuesNothing ==
  [][isAbandoned =>
       /\ \A rsPath \in Paths, metadata \in Metadata :
            enqueue(this, rsPath, metadata).queue = queue
       /\ \A folder \in {f \in Paths : isFolder(f)} :
            \A order \in Orders(LocalFiles(folder)) :
              listDirectory(this, folder, order).queue = queue
       /\ \A rsPath \in Paths : has(queue', rsPath) => has(queue, rsPath)]_vars

\* a folder with children was fetched and handled in an abandoned run, or
\* the local tree was listed in one: none of the paths was enqueued
C11_Witness ==
  /\ isAbandoned
  /\ \/ /\ ev.op = "handled" /\ isFolder(ev.path)
        /\ RemoteItems(ev.path) # <<>>
        /\ \A i \in 1..Len(RemoteItems(ev.path)) :
             ev.path \o RemoteItems(ev.path)[i] \notin everEnqueued
     \/ /\ ev.op = "seed" /\ mode = "restore"
        /\ LocalFiles(initialFolder) # {}
        /\ everEnqueued = {}

\* the folders Backup.execute is to enqueue
initialFolders ==
  IF category = "" THEN {"/"}
  ELSE IF includePublic /\ category # "public"
       THEN {"/" \o category \o "/", "/public/" \o category \o "/"}
       ELSE {"/" \o category \o "/"}

\* the paths of the entries of q
paths(q) == {q[i].path : i \in 1..Len(q)}

\* every entry of q is {inFlight: false, failures: 0}
fresh(q) == \A i \in 1..Len(q) : ~q[i].inFlight /\ q[i].failures = 0

\* the dispatcher ran once on the queue of the step: one entry is in
\* flight, and the 1 ms timer is set when a second connection is allowed
dispatchedOnce ==
  /\ numInFlight(queue') = 1
  /\ Cardinality(transfers') = 1
  /\ timers' = IF simultaneous > 1 THEN 1 ELSE 0

\* C12 as stated: Backup.execute has seeded the queue, when it calls the
\* dispatcher, with exactly '/' (no category), '/<category>/' (category
\* without includePublic, or category 'public') or '/<category>/' and
\* '/public/<category>/'; every entry is {inFlight: false, failures: 0};
\* the dispatcher is invoked once.
C12_BackupSeeds ==
  [][ev'.op = "seed" /\ mode = "backup" =>
       /\ paths(enqueueInitial(this).queue) = initialFolders
       /\ Len(enqueueInitial(this).queue) = Cardinality(initialFolders)
       /\ fresh(enqueueInitial(this).queue)
       /\ paths(queue') = initialFolders
       /\ dispatchedOnce]_vars

\* C12 amended: the same, when no signal has made the run abandon before
\* the seeding (while execute moves the old backup directory away).
C12_BackupSeedsUnlessAbandoned ==
  [][ev'.op = "seed" /\ mode = "backup" /\ ~isAbandoned =>
       /\ paths(enqueueInitial(this).queue) = initialFolders
       /\ Len(enqueueInitial(this).queue) = Cardinality(initialFolders)
       /\ fresh(enqueueInitial(this).queue)
       /\ paths(queue') = initialFolders
       /\ dispatchedOnce]_vars

\* Backup.execute has just run for category 'public' with includePublic
C12_Witness ==
  /\ ev.op = "seed" /\ mode = "backup" /\ ~isAbandoned
  /\ category = "public" /\ includePublic
  /\ Len(queue) = 1 /\ queue[1].path = "/public/" /\ queue[1].inFlight

\* C13: Restore.execute with category X and includePublic (X # 'public')
\* lists '/X/' first and '/public/X/' second: the queue it hands to the
\* dispatcher holds the files of '/X/' followed by those of '/public/X/',
\* or the files of '/X/' alone when the public listing fails (not found),
\* or nothing when the run was abandoned before the walk.  checkPut is
\* invoked once, after both listings: no PUT is in flight before this
\* step, and the step launches one PUT if any file is queued.
C13_RestoreListsThenDispatches ==
  [][/\ started # "yes" => transfers = {}
     /\ ev'.op = "seed" /\ mode = "restore" /\ withPublic =>
          /\ \E o1 \in Orders(LocalFiles(initialFolder)) :
               \E o2 \in Orders(LocalFiles("/public" \o initialFolder)) \cup {<<>>} :
                 keys(queue') = IF isAbandoned THEN <<>> ELSE o1 \o o2
          /\ numInFlight(queue') = IF queue' = <<>> THEN 0 ELSE 1
          /\ Cardinality(transfers') = numInFlight(queue')
          /\ timers' = IF simultaneous > 1 /\ queue' # <<>> THEN 1 ELSE 0]_vars

\* Restore.execute has just walked '/foo/' and '/public/foo/'
C13_Witness ==
  /\ ev.op = "seed" /\ mode = "restore" /\ category = "foo" /\ includePublic
  /\ keys(queue) = <<"/foo/a", "/public/foo/b">>
  /\ queue[1].inFlight /\ ~queue[2].inFlight

\* C14: whenever complete() runs, the exit status is 2 if isAbandoned is
\* set and 0 otherwise, also when the failed-paths set is not empty.
C14_ExitStatus ==
  [][~exited /\ exited' /\ ev'.op # "hardExit" =>
       exitCode' = IF isAbandoned' THEN 2 ELSE 0]_vars

\* a run that was not abandoned has completed with a failed path
C14_Witness ==
  /\ exited /\ exitCode = 0 /\ ~isAbandoned /\ failedPaths # {}

\* the 10 s timer has ended the run before its transfers had finished
cutShort == exited /\ exitCode = 3 /\ transfers # {}

\* C15: after graceful abandonment, in any state of the run, the transfers
\* in flight finish, then complete() runs and the process exits with status
\* 2, also when no transfer was in flight at the moment of abandonment
\* (unless the hard-exit timer fires while a transfer is still in flight).
C15_AbandonedRunCompletes ==
  isAbandoned ~> ((exited /\ exitCode = 2) \/ cutShort)

\* the same, for the runs that have a transfer in flight once abandoned
C15_AbandonedInFlightCompletes ==
  (isAbandoned /\ transfers # {}) ~> ((exited /\ exitCode = 2) \/ cutShort)

\* C16: in Backup, once a termination signal has been handled, the process
\* always exits, at the latest when the 10 s hard-exit timer fires, and
\* its exit status is 2 or 3, never 0.
C16_SignalledBackupExits ==
  /\ (mode = "backup" /\ ev.op = "signal") ~> exited
  /\ [](mode = "backup" /\ ~exited /\ isAbandoned /\ ev.op = "signal"
          => hardExitTimers > 0)
  /\ [][mode = "backup" /\ hardExitTimers > 0 /\ ~exited /\ exited'
          => exitCode' \in {2, 3}]_vars

\* a signalled Backup has completed before the hard-exit timer fired
C16_Witness ==
  /\ mode = "backup" /\ hardExitTimers > 0 /\ exited /\ exitCode = 2

\* the response carries a positive integer number of seconds
positiveSeconds(header) == header.kind = "seconds" /\ header.n > 0

\* the response carries an HTTP-date that lies in the future
futureDate(header) == header.kind = "date" /\ header.n > 0

\* C17: in Backup the default retry-after changes only when it is used as
\* a fallback.  The n-th 429/503 response without a usable Retry-After
\* pauses for 1500 * 2^(n-1) ms and leaves defaultRetryAfterMs at
\* 1500 * 2^n; a 429/503 with a positive integer Retry-After of N seconds
\* pauses for N * 1000 ms and leaves defaultRetryAfterMs unchanged.
C17_DefaultDoubles ==
  [][mode = "backup" =>
       /\ fallbacks' = fallbacks => defaultRetryAfterMs' = defaultRetryAfterMs
       /\ ev'.op = "response" =>
            \A status \in {429, 503}, header \in RetryAfterHeaders :
              Response(ev'.path, status, header) =>
                IF positiveSeconds(header)
                THEN /\ extractRetryAfterMs(this, header).retryAfterMs
                          = Ms(header.n * 1000)
                     /\ fallbacks' = fallbacks
                ELSE IF futureDate(header)
                THEN fallbacks' = fallbacks
                ELSE /\ fallbacks' = fallbacks + 1
                     /\ extractRetryAfterMs(this, header).retryAfterMs
                          = Ms(InitialRetryAfterMs * 2 ^ (fallbacks' - 1))
                     /\ defaultRetryAfterMs'
                          = Ms(InitialRetryAfterMs * 2 ^ fallbacks')]_vars

\* the default has been used a second time: 3000 ms, doubled to 6000
C17_Witness ==
  /\ mode = "backup" /\ ev.op = "response"
  /\ fallbacks = 2 /\ defaultRetryAfterMs = Ms(6000)

\* the delay d is longer than one hour (3,600,000 ms)
overlong(d) == d.num > 3600000 * d.den

\* C18: when the delay computed for a 429/503 response exceeds one hour,
\* isAbandoned becomes true and the pause barrier is still installed; when
\* the delay is at most one hour, the response does not set isAbandoned.
C18_OverlongAbandons ==
  [][ev'.op = "response" =>
       \A status \in {429, 503}, header \in RetryAfterHeaders :
         Response(ev'.path, status, header) =>
           IF overlong(extractRetryAfterMs(this, header).retryAfterMs)
           THEN /\ isAbandoned'
                /\ ~barriers'[pausePrms'].resolved
                /\ pause(this, header).barriers = barriers'
           ELSE isAbandoned' = isAbandoned]_vars

\* a Retry-After of more than an hour has made a Backup abandon; no signal
\* has arrived
C18_Witness ==
  /\ mode = "backup" /\ hardExitTimers = 0 /\ ev.op = "response"
  /\ isAbandoned /\ ~exited /\ ~barriers[pausePrms].resolved

\* the paths folder+k, k in the folder's items, that the queue lacks
newItems(folderPath) ==
  SelectSeq([i \in 1..Len(RemoteItems(folderPath)) |->
               folderPath \o RemoteItems(folderPath)[i]],
            LAMBDA rsPath : ~has(queue, rsPath))

\* the queue minus the folder plus a fresh entry for each new item
expanded(folderPath) ==
  delete(queue, folderPath) \o
    [i \in 1..Len(newItems(folderPath)) |->
       [path |-> newItems(folderPath)[i], inFlight |-> FALSE, failures |-> 0,
        metadata |-> NoMetadata]]

\* C19 as stated: a successful folder fetch with child keys K leaves the
\* queue equal to the previous queue minus the folder plus one entry
\* {inFlight: false, failures: 0} for each folder+k not already queued; the
\* folder stays queued (and in flight) while its directory and description
\* are written; it is not added to the failed-paths set.
C19_FolderExpands ==
  [][ev'.op = "handled" /\ isFolder(ev'.path) =>
       /\ has(queue, ev'.path) /\ get(queue, ev'.path).inFlight
       /\ queue' = expanded(ev'.path)
       /\ ev'.path \in transferred'
       /\ ev'.path \notin failedPaths']_vars

\* C19 amended: the same when the run is not abandoned; in an abandoned
\* run the folder is dequeued and no child is enqueued.
C19_FolderExpandsUnlessAbandoned ==
  [][ev'.op = "handled" /\ isFolder(ev'.path) =>
       /\ has(queue, ev'.path) /\ get(queue, ev'.path).inFlight
       /\ queue' = IF isAbandoned THEN delete(queue, ev'.path)
                   ELSE expanded(ev'.path)
       /\ ev'.path \in transferred'
       /\ ev'.path \notin failedPaths']_vars

\* the folder '/foo/' has been expanded while '/public/foo/' was queued
C19_Witness ==
  /\ ev.op = "handled" /\ ev.path = "/foo/" /\ ~isAbandoned
  /\ keys(queue) = <<"/public/foo/", "/foo/a">>

\* C20: a Restore PUT answered 200, 201 or 412 dequeues the path, leaving
\* every other entry and the failed-paths set as they are; putDocument
\* then returns the server's ETag header for 200/201 and, for 412, the
\* client's own fileETag, the value sent in If-None-Match (the digest of
\* the file, or the ETag of the saved metadata).
C20_PutSucceeds ==
  [][mode = "restore" /\ ev'.op = "response" =>
       \A status \in {200, 201, 412} :
         Response(ev'.path, status, NoHeader) =>
           /\ queue' = delete(queue, ev'.path)
           /\ failedPaths' = failedPaths
           /\ \A etagAlgorithm \in BOOLEAN, serverETag \in ETags :
                putETag(status, serverETag,
                        fileETag(etagAlgorithm, ev'.path,
                                 get(queue, ev'.path).metadata))
                  = IF status # 412 THEN serverETag
                    ELSE IF etagAlgorithm
                         THEN "\"md5 of " \o ev'.path \o "\""
                         ELSE IF get(queue, ev'.path).metadata
                                   \in {NoMetadata, "untagged"}
                              THEN Undefined
                              ELSE "\"" \o get(queue, ev'.path).metadata
                                        \o "-saved\""]_vars

\* a PUT of a file with saved metadata has been answered 200, 201 or 412
\* while another file waits
C20_Witness ==
  /\ mode = "restore" /\ ev.op = "response" /\ ev.path = "/foo/a"
  /\ ev.path \in transferred /\ ~has(queue, ev.path)
  /\ failedPaths = {} /\ queue # <<>> /\ ~exited

\* C21: for every Restore PUT, if etagAlgorithm is configured fileETag is
\* the quoted digest of the local file, whatever the saved metadata says;
\* otherwise it is metadata.ETag when present and absent without metadata
\* or without an ETag in it.  If-None-Match is sent if and only if
\* fileETag is present, with fileETag as its value.
C21_ConditionalPut ==
  mode = "restore" /\ ~exited =>
    \A t \in transfers :
      /\ has(queue, t.path)
      /\ t.headers =
           IF algorithm
           THEN {[name |-> "If-None-Match",
                  value |-> "\"md5 of " \o t.path \o "\""]}
           ELSE IF get(queue, t.path).metadata \in {"described", "fresher"}
           THEN {[name |-> "If-None-Match",
                  value |-> "\"" \o get(queue, t.path).metadata \o "-saved\""]}
           ELSE {}

\* with etagAlgorithm configured, a file that has a saved ETag is being PUT
C21_Witness ==
  /\ mode = "restore" /\ algorithm
  /\ \E t \in transfers :
       /\ t.stage = "fetch" /\ has(queue, t.path)
       /\ get(queue, t.path).metadata = "described"
       /\ t.headers # {}

\* C22: content-type resolution follows a strict precedence for every
\* combination of inputs: a non-empty metadata Content-Type if present;
\* else the magic-number type if the sniff yields one; else the extension
\* type if the lookup yields one; else 'application/octet-stream'.
C22_ContentTypePrecedence ==
  call.op = "getContentType" /\ returned # NotReturned =>
    returned =
      IF call.metadataType \notin {Undefined, ""} THEN call.metadataType
      ELSE IF call.sniffed # Undefined THEN call.sniffed
      ELSE IF call.extension # Null THEN call.extension
      ELSE "application/octet-stream"

\* without metadata, the magic numbers have won over the extension
C22_Witness ==
  /\ call.op = "getContentType" /\ call.metadataType = ""
  /\ call.sniffed = "image/gif" /\ call.extension = "text/csv"
  /\ returned = "image/gif"

\* the regular files among the entries of a directory that are neither
\* description files nor dotfiles, as path and metadata
regularFiles(dir, folderPath) ==
  { [path |-> folderPath \o text(dir.entries[i].name),
     metadata |->
       IF dir.description.parsed
          /\ [name |-> dir.entries[i].name, metadata |-> "described"]
               \in dir.description.items
       THEN "described"
       ELSE IF dir.description.parsed
               /\ [name |-> dir.entries[i].name, metadata |-> "fresher"]
                    \in dir.description.items
       THEN "fresher"
       ELSE NoMetadata] :
    i \in {j \in 1..Len(dir.entries) :
             /\ dir.entries[j].kind = "file"
             /\ dir.entries[j].name # <<"000_folder-description.json">>
             /\ Head(dir.entries[j].name) # "."} }

\* the directories among the entries of a directory
directories(dir) ==
  {j \in 1..Len(dir.entries) : dir.entries[j].kind = "directory"}

\* the same, but for those whose name starts with a dot
plainDirectories(dir) ==
  {j \in directories(dir) : Head(dir.entries[j].name) # "."}

\* the files of the tree below the directories js and in the top directory
filesOf(dir, js) ==
  regularFiles(dir, "/") \cup
  UNION {regularFiles(dir.entries[j].dir,
                      "/" \o text(dir.entries[j].name) \o "/") : j \in js}

\* the queue holds one fresh entry for each of the files, and nothing has
\* been dispatched
queuedExactly(files) ==
  /\ {[path |-> queue[i].path, metadata |-> queue[i].metadata] :
        i \in 1..Len(queue)} = files
  /\ Len(queue) = Cardinality(files)
  /\ \A i \in 1..Len(queue) : ~queue[i].inFlight /\ queue[i].failures = 0
  /\ transfers = {} /\ timers = 0 /\ immediates = 0

readError(rsPath) == ev'.op = "read" /\ Throws(rsPath)

\* C24: an I/O error while reading the local file during a Restore transfer
\* (stat, type sniffing, digest, body read) propagates out of the transfer
\* and aborts the run; it is not recorded as a retryable failure of the
\* queue entry.
C24_ReadErrorAborts ==
  [][\A rsPath \in Paths :
       readError(rsPath) =>
         /\ exited'
         /\ ~(has(queue', rsPath)
               /\ get(queue', rsPath).failures > get(queue, rsPath).failures)]_vars

\* what the code does instead: the error is counted on the entry, which
\* stays queued for a retry until MAX_FAILURES_PER_PATH is reached
C24_ReadErrorCounted ==
  [][\A rsPath \in Paths :
       readError(rsPath) /\ get(queue, rsPath).failures + 1 < MAX_FAILURES_PER_PATH
                         /\ ~isAbandoned =>
         /\ ~exited'
         /\ has(queue', rsPath)
         /\ get(queue', rsPath).failures = get(queue, rsPath).failures + 1
         /\ ~get(queue', rsPath).inFlight]_vars

\* the barriers that this.pausePrms no longer holds and that still pend
replaced == {a \in 1..Len(barriers) : a # pausePrms /\ ~barriers[a].resolved}

\* C25: the pause barrier is never shrunk: the barrier that a 429/503
\* response installs resolves no earlier than the barrier it replaces would
\* have, whatever the order of the responses of concurrent transfers and
\* their Retry-After values; so the current barrier never resolves while a
\* barrier it replaced is still pending.
C25_BarrierNeverShrunk ==
  [][ev'.op = "resume" /\ PauseEnds(pausePrms) => replaced = {}]_vars

\* what the code does: a barrier is replaced by any later one, and it is
\* the delays alone that order their timers
C25_ShorterDelayShrinks ==
  [][ev'.op = "resume" /\ PauseEnds(pausePrms) =>
       \A a \in replaced :
         less(barriers[pausePrms].retryAfterMs, barriers[a].retryAfterMs)]_vars

\* C26: between the steps of the engine the failed-paths set is disjoint
\* from the queue, and it only grows: no path is removed from it during a
\* run, so a path that is in it is never in the queue (nor enqueued again)
\* afterwards.
C26_FailedPathsApart ==
  /\ [](failedPaths \cap {queue[i].path : i \in 1..Len(queue)} = {})
  /\ [][failedPaths \subseteq failedPaths']_vars

\* a path was given up while other paths are still queued, one in flight
C26_Witness ==
  /\ ~exited /\ ~isAbandoned
  /\ failedPaths # {}
  /\ \E i \in 1..Len(queue) : queue[i].inFlight
  /\ failedPaths \subseteq everEnqueued

\* the paths whose entry is marked in flight
inFlight(q) == {q[i].path : i \in {j \in 1..Len(q) : q[j].inFlight}}

\* C27: at any time at most one transfer executes for a path, and a queue
\* entry has inFlight = true exactly while a transfer of its path executes:
\* the dispatcher never launches a path whose entry is in flight, and no
\* transfer ends, by whatever status or exception, leaving an entry that is
\* still queued marked in flight.
C27_OneTransferPerPath ==
  /\ [](~exited =>
         /\ \A t1, t2 \in transfers : t1.path = t2.path => t1 = t2
         /\ inFlight(queue) = {t.path : t \in transfers})
  /\ [][~exited' =>
         /\ \A t \in transfers' \ transfers :
              t.stage = "fetch" => t.path \notin inFlight(queue)
         /\ \A rsPath \in Paths :
              finishes(rsPath) => rsPath \notin inFlight(queue')]_vars

\* a transfer has just ended in a failure that keeps its entry queued, now
\* idle, while the transfer of another path goes on
C27_Witness ==
  /\ ~exited /\ ev.op \in {"throw", "text", "response"}
  /\ has(queue, ev.path) /\ ev.path \notin inFlight(queue)
  /\ get(queue, ev.path).failures > 0
  /\ inFlight(queue) # {}

\* the transfers that start in this step
started1 == transfers' \ transfers

\* no transfer can be started: every entry is in flight, or as many
\* entries as allowed are
saturated(q) == idle(q) = {} \/ numInFlight(q) >= simultaneous

\* C28: a single invocation of the dispatcher (checkFetch or checkPut)
\* starts at most one new transfer, and none when every entry is in flight
\* or when the number of entries in flight is already >= simultaneous.
\* This is checked for the invocation applied to every reachable state and
\* for the steps that consist of one invocation (a timer or an immediate);
\* the end of a pause runs one invocation for each call that awaited it.
C28_AtMostOneLaunch ==
  /\ [](~exited =>
         /\ Cardinality(dispatch(this).transfers \ transfers) <= 1
         /\ inFlight(dispatch(this).queue) \ inFlight(queue) =
              {t.path : t \in dispatch(this).transfers \ transfers}
         /\ saturated(queue) => (dispatch(this).transfers = transfers
                                 /\ dispatch(this).queue = queue))
  /\ [][/\ ev'.op \in {"timer", "immediate"} =>
             /\ Cardinality(started1) <= 1
             /\ saturated(queue) => (started1 = {} /\ queue' = queue)
        /\ ev'.op = "resume" =>
             (\A b \in 1..Len(barriers) :
                PauseEnds(b) => Cardinality(started1) <= barriers[b].waiters)]_vars

\* one invocation has just started one transfer although two entries were
\* idle and two transfers allowed
C28_Witness ==
  /\ ~exited /\ ev.op \in {"timer", "immediate"}
  /\ simultaneous = 2
  /\ numInFlight(queue) = 1
  /\ Cardinality(idle(queue)) >= 1
  /\ timers = 1

\* the places of the idle entries of q
idleAt(q) == {i \in 1..Len(q) : ~q[i].inFlight}

\* the first of them
firstIdle(q) == CHOOSE i \in idleAt(q) : \A j \in idleAt(q) : i <= j

\* the outcome of a scan of the whole queue
fullScan(q) ==
  [numInFlight |-> numInFlight(q),
   nextPath |-> IF idleAt(q) = {} THEN NoPath ELSE q[firstIdle(q)].path]

\* C29: the path that an invocation of the dispatcher starts is the first
\* entry in insertion order whose inFlight flag is false, for every queue
\* content and distribution of entries in flight; the early exit of the
\* scan changes neither the path chosen nor whether one is launched,
\* compared with a scan of the whole queue.
C29_FirstIdleLaunched ==
  call.op = "checkFetch" /\ returned # NotReturned =>
    LET q == call.queue
        full == fullScan(q)
        early == scan(q, 1, 0, NoPath)
    IN  /\ early.nextPath = full.nextPath
        /\ (early.numInFlight < simultaneous) = (full.numInFlight < simultaneous)
        /\ queue = IF full.nextPath # NoPath /\ full.numInFlight < simultaneous
                   THEN [q EXCEPT ![firstIdle(q)].inFlight = TRUE]
                   ELSE q
        /\ {t.path : t \in transfers} = inFlight(queue)

\* the dispatcher was called on a queue whose first entry was in flight and
\* whose next two were idle: it has started the second
C29_Witness ==
  /\ call.op = "checkFetch" /\ returned # NotReturned
  /\ simultaneous = 2
  /\ Len(call.queue) >= 3
  /\ call.queue[1].inFlight /\ ~call.queue[2].inFlight /\ ~call.queue[3].inFlight
  /\ queue[2].inFlight /\ ~queue[3].inFlight

\* C30: moving an entry to the end, which every transfer does at its end
\* when its entry is still queued, keeps the size and the key set of the
\* queue, keeps the other entries in their order, puts the entry after all
\* others and reinserts the same record: its failures (those counted by the
\* transfer that ends) and its metadata are what they were before the move.
C30_MoveToEnd ==
  [][\A rsPath \in Paths :
       finishes(rsPath) /\ ~exited' /\ has(queue', rsPath) =>
         /\ Len(queue') = Len(queue)
         /\ {queue'[i].path : i \in 1..Len(queue')} =
              {queue[i].path : i \in 1..Len(queue)}
         /\ SelectSeq(queue', LAMBDA e : e.path # rsPath) =
              SelectSeq(queue, LAMBDA e : e.path # rsPath)
         /\ queue'[Len(queue')] =
              [path |-> rsPath, inFlight |-> FALSE,
               failures |-> leftWith(rsPath),
               metadata |-> get(queue, rsPath).metadata]]_vars

\* the first transfer of a Restore of three files has ended in a failure:
\* its entry, which was the first, now stands behind the two others
C30_Witness ==
  /\ ~exited /\ ev.op \in {"throw", "read", "text", "response"}
  /\ mode = "restore" /\ simultaneous = 1
  /\ Len(queue) = 3
  /\ queue[3].path = ev.path /\ queue[3].failures = 1
  /\ queue[1].failures = 0 /\ queue[2].failures = 0

\* C31: once isAbandoned is set no transfer is launched: no invocation of
\* the dispatcher marks an entry in flight, the queue gains no entry, and
\* every transfer that was in flight ends with its path out of the queue,
\* dequeued on success, dequeued and added to the failed-paths set otherwise.
C31_AbandonedWindsDown ==
  [][/\ isAbandoned =>
         /\ ~launches
         /\ inFlight(queue') \subseteq inFlight(queue)
         /\ {queue'[i].path : i \in 1..Len(queue')} \subseteq
              {queue[i].path : i \in 1..Len(queue)}
     /\ isAbandoned' =>
         \A rsPath \in Paths :
           finishes(rsPath) =>
             /\ ~has(queue', rsPath)
             /\ rsPath \in transferred' \/ rsPath \in failedPaths']_vars

\* the part that holds: nothing is launched or enqueued in an abandoned
\* run, and a transfer that ends leaves its path out of the queue
C31_AbandonedLaunchesNothing ==
  [][/\ isAbandoned =>
         /\ ~launches
         /\ inFlight(queue') \subseteq inFlight(queue)
         /\ {queue'[i].path : i \in 1..Len(queue')} \subseteq
              {queue[i].path : i \in 1..Len(queue)}
     /\ isAbandoned' =>
         \A rsPath \in Paths : finishes(rsPath) => ~has(queue', rsPath)]_vars

\* C32: every transfer, whatever its outcome (success, any status, an
\* exception of the transport or of the handling of the response), returns
\* to its caller and, unless it triggered completion, schedules exactly one
\* further invocation of the dispatcher (setImmediate) and no timer.
C32_TransferSchedulesOne ==
  [][\A rsPath \in Paths :
       finishes(rsPath) /\ ~exited' =>
         /\ immediates' = immediates + 1
         /\ timers' = timers
         /\ ~\E t \in transfers' : t.path = rsPath]_vars

\* a transfer has ended in an exception and another in a response: two
\* invocations of the dispatcher are scheduled
C32_Witness ==
  /\ ~exited /\ ev.op \in {"throw", "read"}
  /\ immediates = 2
  /\ transfers = {}

\* the timers that an invocation on the state at hand must set: one when it
\* launches and the entries in flight, the new one counted, are still fewer
\* than `simultaneous`
followUps(launched, q) ==
  IF launched /\ numInFlight(q) < simultaneous THEN 1 ELSE 0

\* C33: an invocation of the dispatcher schedules a follow-up invocation by
\* a 1 ms timer if and only if it launches a transfer and the number of
\* entries in flight, counting the new one, is still below `simultaneous`;
\* an invocation that launches nothing schedules nothing.  Checked for the
\* invocation applied to every reachable state and for the steps that are
\* one invocation (the timer that fires is consumed).
C33_TimerIffRoomLeft ==
  /\ [](~exited =>
         /\ dispatch(this).timers =
              timers + followUps(dispatch(this).transfers # transfers,
                                 dispatch(this).queue)
         /\ dispatch(this).immediates = immediates)
  /\ [][ev'.op \in {"timer", "immediate"} =>
         /\ timers' + immediates' =
              timers + immediates - 1 + followUps(started1 # {}, queue')
         /\ immediates' <= immediates]_vars

\* an invocation has launched the first of two transfers allowed and set
\* the timer for the next
C33_Witness ==
  /\ ~exited /\ ev.op = "seed"
  /\ simultaneous = 2
  /\ numInFlight(queue) = 1
  /\ timers = 1 /\ immediates = 0

\* C34: retries are round-robin: after a transfer of P ends with P kept in
\* the queue, P is not launched again until every entry that was queued and
\* idle at that moment has itself been launched or removed; a path that
\* fails again and again cannot starve the others.
C34_RoundRobin ==
  [][\A t \in transfers' \ transfers :
       t.stage = "fetch" =>
         \A pair \in owed :
           pair[1] = t.path =>
             ~has(queue', pair[2]) \/ get(queue', pair[2]).inFlight]_vars

\* a path that failed is in flight again, after the entry that was idle
\* when it failed was launched in its turn and kept too
C34_Witness ==
  /\ ~exited /\ Len(queue) >= 2
  /\ queue[1].inFlight /\ queue[1].failures > 0
  /\ ~queue[2].inFlight /\ queue[2].failures > 0
  /\ <<queue[2].path, queue[1].path>> \notin owed

\* invocations of the dispatcher that are pending: set by a timer or by
\* setImmediate, or awaiting a pause promise
pendingInvocations ==
  timers + immediates
  + Cardinality({b \in 1..Len(barriers) :
                   ~barriers[b].resolved /\ barriers[b].waiters > 0})

C36_CappedRunCompletes ==
  /\ [](\A rsPath \in Paths : requests[rsPath] <= MAX_FAILURES_PER_PATH)
  /\ <>(isAbandoned \/ (completed /\ queue = <<>>))

\* what holds: the cap on the requests, and completion of the runs that no
\* signal interrupts and that enqueue a path
C36_CappedRunWithWorkCompletes ==
  /\ [](\A rsPath \in Paths : requests[rsPath] <= MAX_FAILURES_PER_PATH)
  /\ <>(\/ isAbandoned
        \/ completed /\ queue = <<>>
        \/ started = "yes" /\ everEnqueued = {})

\* with 504 responses a path is requested more often than 3 times
C36_UncountedRequests ==
  \E rsPath \in Paths : requests[rsPath] > MAX_FAILURES_PER_PATH

\* C37: every Restore run that is not abandoned eventually runs completion
\* and exits with status 0, also a run whose walk of the backup directory
\* enqueues no file.
C37_RestoreCompletes ==
  mode = "restore" => <>(isAbandoned \/ (completed /\ exitCode = 0))

\* what holds: the same for the runs whose walk enqueues a file
C37_RestoreWithWorkCompletes ==
  mode = "restore" =>
    <>(\/ isAbandoned
       \/ completed /\ exitCode = 0
       \/ started = "yes" /\ everEnqueued = {})

\* complete() runs in this step
completion == ~exited /\ exited' /\ exitCode' # 3

\* the paths that handleFolder offers to enqueue for the folder
children(folder) ==
  {folder \o RemoteItems(folder)[i] : i \in 1..Len(RemoteItems(folder))}

C39_DocumentAfterFolder ==
  mode = "backup" =>
    \A rsPath \in Paths :
      ~isFolder(rsPath) /\ (has(queue, rsPath) \/ requests[rsPath] > 0) =>
        \E folder \in transferred : isFolder(folder) /\ rsPath \in children(folder)

\* the request for a document of the category is outstanding while a
\* folder is still being fetched on the other connection
C39_Witness ==
  /\ mode = "backup" /\ ~exited
  /\ \E t \in transfers : t.path = "/foo/a" /\ t.stage = "fetch"
  /\ \E t \in transfers : isFolder(t.path)

\* C40: in a Backup against a server whose 429 and 503 answers never carry
\* a usable Retry-After, the k-th use of the fallback pauses for
\* 1500 * 2^(k-1) ms; isAbandoned is not set by the 1st to the 12th use
\* (3,072,000 ms, at most one hour) and is set by the 13th (6,144,000 ms),
\* which every run that does not complete before reaches.
C40_ThirteenthFallbackAbandons ==
  /\ [](isAbandoned <=> fallbacks >= 13)
  /\ [](defaultRetryAfterMs = Ms(InitialRetryAfterMs * 2^fallbacks))
  /\ [][fallbacks' # fallbacks =>
          /\ fallbacks' = fallbacks + 1
          /\ barriers'[pausePrms'].retryAfterMs = Ms(1500 * 2^fallbacks)
          /\ (fallbacks' = 12 => barriers'[pausePrms'].retryAfterMs = Ms(3072000))
          /\ (fallbacks' = 13 => barriers'[pausePrms'].retryAfterMs = Ms(6144000))
          /\ (fallbacks' <= 12 =>
                ~exceeds(barriers'[pausePrms'].retryAfterMs, OneHourMs))
          /\ (fallbacks' >= 13 =>
                exceeds(barriers'[pausePrms'].retryAfterMs, OneHourMs))]_vars
  /\ <>(isAbandoned \/ completed)

\* the 13th fallback pause has just abandoned the run
C40_Witness ==
  /\ ev.op = "response" /\ fallbacks = 13 /\ isAbandoned
  /\ barriers[pausePrms].retryAfterMs = Ms(6144000)

\* the 12th fallback pause is under way and the run goes on
C40_TwelfthPause ==
  /\ fallbacks = 12 /\ ~isAbandoned /\ ~exited
  /\ ~barriers[pausePrms].resolved
  /\ barriers[pausePrms].retryAfterMs = Ms(3072000)

====
